---- MODULE Spec2Model ----
(***************************************************************************)
(* Model of cmd/manager/main.go: the ordered, fallible setup steps of      *)
(* main, the blocking run call, the watch-lifetime cancellation, the fixed *)
(* drain sleep, the construction of the cleanup client and the fan-out /   *)
(* fan-in of the two finalizer cleanup goroutines.                         *)
(*                                                                         *)
(* main is one sequential thread whose position is pc.  The goroutines it  *)
(* starts (the two finalizer removers), the goroutines the manager spawns  *)
(* inside mgr.Start (reconciles) and the watch manager are separate        *)
(* processes that interleave with it.  Time is a discrete clock, one tick  *)
(* per second.                                                             *)
(***************************************************************************)
EXTENDS Integers, Sequences, FiniteSets

\* ---------------------------------------------------------------- bounds
\* Seconds that may pass before the drain sleep, and again on top of the
\* sleep's full length (by the sleep overrunning, or during the cleanup).
MaxClock == 1
\* Reconcile goroutines the manager may have in flight at once.
MaxReconciles == 1

\* ------------------------------------------------------ program constants
\* time.Sleep(5 * time.Second), in seconds.
DrainDelay == 5

Workers == {"sync", "templates"}

VARIABLES
    logLevel,     \* the flag variable *logLevel, read by the switch
    logger,       \* the process-wide logger installed by logf.SetLogger
    pc,           \* position of main: the statement it executes next
    exitCode,     \* -1 while the process lives, else the exit status
    hadError,     \* main's local hadError
    client,       \* main's local client: "unset", "nil" (NewClient failed), "ok"
    wmState,      \* watch manager: "none", "running", "cancelled", "stopped"
    wmCancels,    \* number of times wmCancel() has been invoked
    nextConn,     \* identity of the next client instance to be constructed
    mgrCli,       \* identity of the client the manager holds (0: none)
    cli,          \* main's local cli, the cleanup client (0: none)
    worker,       \* per cleanup goroutine: state, client received, error seen
    done,         \* the channels syncCleaned / templatesCleaned
    observed,     \* completion signals main has received, in order
    reconciles,   \* reconcile goroutines of the manager still in flight
    clock,        \* seconds since process start
    sleepStart,   \* clock value at which time.Sleep was entered
    calls,        \* spy: the collaborator calls main has made, with outcome
    visited,      \* spy: the coordinator states main has been in, in order
    stamps        \* spy: clock values of the events timing claims refer to

vars == <<logLevel, logger, pc, exitCode, hadError, client, wmState, wmCancels, nextConn, mgrCli,
          cli, worker, done, observed, reconciles, clock, sleepStart, calls,
          visited, stamps>>

\* ------------------------------------------------------ log configuration
\* What may stand on the command line for --log-level; NoFlag: the flag is
\* not given.
NoFlag == "<absent>"

LogArgs == {NoFlag, "DEBUG", "INFO", "WARNING", "ERROR", "debug", "Warning",
            "TRACE", ""}

\* flag.String("log-level", "INFO", ...) and flag.Parse(): the value of
\* *logLevel for a command line.
FlagValue(arg) == IF arg = NoFlag THEN "INFO" ELSE arg

\* No logger installed yet.
NoLogger ==
    [ctor |-> "none", development |-> FALSE, encoder |-> "-", level |-> "-",
     stacktrace |-> "-", samplePerSecond |-> 0]

\* logf.ZapLogger(development): the development logger is the verbose
\* console logger at DEBUG, the other one the standard logger at INFO.
ZapLogger(development) ==
    [ctor |-> "ZapLogger", development |-> development,
     encoder |-> IF development THEN "console" ELSE "standard",
     level |-> IF development THEN "DEBUG" ELSE "INFO",
     stacktrace |-> IF development THEN "WARNING" ELSE "ERROR",
     samplePerSecond |-> 0]

\* The logger setLoggerForProduction builds: JSON encoder, level WARNING,
\* stack traces at ERROR, sampler (time.Second, 100, 100).
ProductionLogger ==
    [ctor |-> "zapr", development |-> FALSE, encoder |-> "json",
     level |-> "WARNING", stacktrace |-> "ERROR", samplePerSecond |-> 100]

\* Mutation of LoggerFor: the case "WARNING", "ERROR" lists WARNING only.
LoggerForWarningOnly(level) ==
    CASE level = "DEBUG" -> ZapLogger(TRUE)
      [] level = "WARNING" -> ProductionLogger
      [] OTHER -> ZapLogger(FALSE)

\* switch *logLevel: the logger each string selects; the comparison is
\* Go's string equality.
LoggerFor(level) ==
    CASE level = "DEBUG" -> ZapLogger(TRUE)
      [] level \in {"WARNING", "ERROR"} -> ProductionLogger
      [] level = "INFO" -> ZapLogger(FALSE)
      [] OTHER -> ZapLogger(FALSE)

\* --------------------------------------------------------------- helpers
Call(op, ok, arg) == [op |-> op, ok |-> ok, arg |-> arg]

Range(s) == {s[i] : i \in 1..Len(s)}

Last(s) == s[Len(s)]

\* The coordinator state a position of main belongs to.
StateOf(p) ==
    CASE p \in {"ConfigureLog", "GetConfig", "ManagerNew", "AddToScheme", "NewBackend",
                "NewClient", "WatchNew", "ControllerAdd", "WebhookAdd",
                "AuditAdd", "UpgradeAdd", "MgrStart"} -> "Registering"
      [] p = "Running" -> "Running"
      [] p = "WmCancel" -> "Cancelling"
      [] p \in {"Sleep", "Sleeping"} -> "Draining"
      [] p \in {"CliNew", "GoSync", "GoTemplates", "RecvSync",
                "RecvTemplates", "CheckHadError"} -> "CleaningUp"
      [] p = "exited" -> "Terminated"

\* main moves on to statement p.
Goto(p) ==
    /\ pc' = p
    /\ visited' = IF StateOf(p) = Last(visited) THEN visited
                  ELSE Append(visited, StateOf(p))

\* os.Exit(code), or main returning (code 0): the process and every
\* goroutine in it are gone.
Exit(code) ==
    /\ Goto("exited")
    /\ exitCode' = code

Alive == pc # "exited"

Init ==
    /\ logLevel = "INFO"
    /\ logger = NoLogger
    /\ pc = "ConfigureLog"
    /\ exitCode = -1
    /\ hadError = FALSE
    /\ client = "unset"
    /\ wmState = "none"
    /\ wmCancels = 0
    /\ nextConn = 1
    /\ mgrCli = 0
    /\ cli = 0
    /\ worker = [w \in Workers |-> [st |-> "idle", conn |-> 0, err |-> FALSE]]
    /\ done = [w \in Workers |-> "nil"]
    /\ observed = <<>>
    /\ reconciles = 0
    /\ clock = 0
    /\ sleepStart = 0
    /\ calls = <<>>
    /\ visited = <<"Registering">>
    /\ stamps = [returned |-> -1, cancelled |-> -1, woke |-> -1,
                 started |-> [w \in Workers |-> -1],
                 fired |-> [w \in Workers |-> -1]]

\* flag.Parse(); switch *logLevel { ... logf.SetLogger(...) }, for a command
\* line whose --log-level is one of args.
ConfigureLog(args) ==
    /\ pc = "ConfigureLog"
    /\ \E a \in args :
        /\ logLevel' = FlagValue(a)
        /\ logger' = LoggerFor(FlagValue(a))
        /\ calls' = Append(calls, Call("SetLogger", TRUE, a))
    /\ Goto("GetConfig")
    /\ UNCHANGED <<exitCode, hadError, client, wmState, wmCancels, nextConn,
                   mgrCli, cli, worker, done, observed, reconciles, clock,
                   sleepStart, stamps>>

\* ------------------------------------------------------------ setup steps
\* One setup step: call op with argument arg; on error log it and, when the
\* step is fatal, os.Exit(1); otherwise go on to the next statement.
Step(here, op, arg, next, fatal) ==
    /\ pc = here
    /\ \E ok \in BOOLEAN :
        /\ calls' = Append(calls, Call(op, ok, arg))
        /\ IF ok \/ ~fatal THEN Goto(next) /\ exitCode' = exitCode
                           ELSE Exit(1)

\* cfg, err := config.GetConfig()
GetConfig ==
    /\ Step("GetConfig", "GetConfig", "-", "ManagerNew", TRUE)
    /\ UNCHANGED <<logLevel, logger,
                   hadError, client, wmState, wmCancels, nextConn, mgrCli, cli,
                   worker, done, observed, reconciles, clock, sleepStart,
                   stamps>>

\* mgr, err := manager.New(cfg, manager.Options{}); the manager builds the
\* client it uses during setup and run.
ManagerNew ==
    /\ Step("ManagerNew", "ManagerNew", "-", "AddToScheme", TRUE)
    /\ IF Alive' THEN mgrCli' = nextConn /\ nextConn' = nextConn + 1
                 ELSE UNCHANGED <<mgrCli, nextConn>>
    /\ UNCHANGED <<logLevel, logger,
                   hadError, client, wmState, wmCancels, cli, worker, done,
                   observed, reconciles, clock, sleepStart, stamps>>

\* Mutation of AddToScheme: the error is logged and startup goes on.
AddToSchemeLogOnly ==
    /\ Step("AddToScheme", "AddToScheme", "-", "NewBackend", FALSE)
    /\ UNCHANGED <<logLevel, logger,
                   hadError, client, wmState, wmCancels, nextConn, mgrCli, cli,
                   worker, done, observed, reconciles, clock, sleepStart,
                   stamps>>

\* apis.AddToScheme(mgr.GetScheme())
AddToScheme ==
    /\ Step("AddToScheme", "AddToScheme", "-", "NewBackend", TRUE)
    /\ UNCHANGED <<logLevel, logger,
                   hadError, client, wmState, wmCancels, nextConn, mgrCli, cli,
                   worker, done, observed, reconciles, clock, sleepStart,
                   stamps>>

\* backend, err := opa.NewBackend(opa.Driver(driver))
NewBackend ==
    /\ Step("NewBackend", "NewBackend", "-", "NewClient", TRUE)
    /\ UNCHANGED <<logLevel, logger,
                   hadError, client, wmState, wmCancels, nextConn, mgrCli, cli,
                   worker, done, observed, reconciles, clock, sleepStart,
                   stamps>>

\* Mutation of NewClient: the failure is fatal like the other setup steps.
NewClientFatal ==
    /\ Step("NewClient", "NewClient", "-", "WatchNew", TRUE)
    /\ client' = IF Last(calls').ok THEN "ok" ELSE "nil"
    /\ UNCHANGED <<logLevel, logger,
                   hadError, wmState, wmCancels, nextConn, mgrCli, cli, worker,
                   done, observed, reconciles, clock, sleepStart, stamps>>

\* client, err := backend.NewClient(...); the error is logged, nothing else.
NewClient ==
    /\ Step("NewClient", "NewClient", "-", "WatchNew", FALSE)
    /\ client' = IF Last(calls').ok THEN "ok" ELSE "nil"
    /\ UNCHANGED <<logLevel, logger,
                   hadError, wmState, wmCancels, nextConn, mgrCli, cli, worker,
                   done, observed, reconciles, clock, sleepStart, stamps>>

\* wmCtx, wmCancel := context.WithCancel(...); wm := watch.New(wmCtx, ...)
WatchNew ==
    /\ pc = "WatchNew"
    /\ calls' = Append(calls, Call("WatchNew", TRUE, "-"))
    /\ wmState' = "running"
    /\ Goto("ControllerAdd")
    /\ UNCHANGED <<logLevel, logger,
                   exitCode, hadError, client, wmCancels, nextConn, mgrCli, cli,
                   worker, done, observed, reconciles, clock, sleepStart,
                   stamps>>

\* Mutation of ControllerAdd: the error branch cancels the watch lifetime
\* before it exits.
ControllerAddCancelsOnError ==
    /\ pc = "ControllerAdd"
    /\ \E ok \in BOOLEAN :
        /\ IF ok
             THEN /\ calls' = Append(calls, Call("ControllerAdd", ok, client))
                  /\ Goto("WebhookAdd")
                  /\ UNCHANGED <<exitCode, wmCancels, wmState>>
             ELSE /\ calls' = Append(Append(calls,
                                 Call("ControllerAdd", ok, client)),
                                 Call("wmCancel", TRUE, "-"))
                  /\ wmCancels' = wmCancels + 1
                  /\ wmState' = "cancelled"
                  /\ Exit(1)
    /\ UNCHANGED <<logLevel, logger, hadError, client, nextConn, mgrCli, cli,
                   worker, done, observed, reconciles, clock, sleepStart,
                   stamps>>

\* controller.AddToManager(mgr, client, wm)
ControllerAdd ==
    /\ Step("ControllerAdd", "ControllerAdd", client, "WebhookAdd", TRUE)
    /\ UNCHANGED <<logLevel, logger,
                   hadError, client, wmState, wmCancels, nextConn, mgrCli, cli,
                   worker, done, observed, reconciles, clock, sleepStart,
                   stamps>>

\* webhook.AddToManager(mgr, client)
WebhookAdd ==
    /\ Step("WebhookAdd", "WebhookAdd", client, "AuditAdd", TRUE)
    /\ UNCHANGED <<logLevel, logger,
                   hadError, client, wmState, wmCancels, nextConn, mgrCli, cli,
                   worker, done, observed, reconciles, clock, sleepStart,
                   stamps>>

\* audit.AddToManager(mgr, client)
AuditAdd ==
    /\ Step("AuditAdd", "AuditAdd", client, "UpgradeAdd", TRUE)
    /\ UNCHANGED <<logLevel, logger,
                   hadError, client, wmState, wmCancels, nextConn, mgrCli, cli,
                   worker, done, observed, reconciles, clock, sleepStart,
                   stamps>>

\* Mutation of UpgradeAdd: on failure main jumps to the cleanup instead of
\* exiting.
UpgradeAddThenCleanup ==
    /\ pc = "UpgradeAdd"
    /\ \E ok \in BOOLEAN :
        /\ calls' = Append(calls, Call("UpgradeAdd", ok, "-"))
        /\ IF ok THEN Goto("MgrStart") ELSE Goto("CliNew")
    /\ UNCHANGED <<logLevel, logger,
                   exitCode, hadError, client, wmState, wmCancels, nextConn,
                   mgrCli, cli, worker, done, observed, reconciles, clock,
                   sleepStart, stamps>>

\* upgrade.AddToManager(mgr)
UpgradeAdd ==
    /\ Step("UpgradeAdd", "UpgradeAdd", "-", "MgrStart", TRUE)
    /\ UNCHANGED <<logLevel, logger,
                   hadError, client, wmState, wmCancels, nextConn, mgrCli, cli,
                   worker, done, observed, reconciles, clock, sleepStart,
                   stamps>>

\* ------------------------------------------------------------- run phase
\* mgr.Start(signals.SetupSignalHandler()) is entered; main blocks in it.
MgrStart ==
    /\ pc = "MgrStart"
    /\ calls' = Append(calls, Call("Start", TRUE, "-"))
    /\ Goto("Running")
    /\ UNCHANGED <<logLevel, logger,
                   exitCode, hadError, client, wmState, wmCancels, nextConn,
                   mgrCli, cli, worker, done, observed, reconciles, clock,
                   sleepStart, stamps>>

\* Mutation of MgrStartReturn: an error of the run call exits at once.
MgrStartReturnExitOnError ==
    /\ pc = "Running"
    /\ \E ok \in BOOLEAN :
        /\ calls' = Append(calls, Call("StartReturn", ok, "-"))
        /\ hadError' = ~ok
        /\ IF ok THEN Goto("WmCancel") /\ exitCode' = exitCode ELSE Exit(1)
    /\ stamps' = [stamps EXCEPT !.returned = clock]
    /\ UNCHANGED <<logLevel, logger,
                   client, wmState, wmCancels, nextConn, mgrCli, cli, worker,
                   done, observed, reconciles, clock, sleepStart>>

\* mgr.Start returns, on a termination signal or on an internal error, with
\* nil or an error; hadError records which.
MgrStartReturn ==
    /\ pc = "Running"
    /\ \E ok \in BOOLEAN :
        /\ calls' = Append(calls, Call("StartReturn", ok, "-"))
        /\ hadError' = ~ok
    /\ Goto("WmCancel")
    /\ stamps' = [stamps EXCEPT !.returned = clock]
    /\ UNCHANGED <<logLevel, logger,
                   exitCode, client, wmState, wmCancels, nextConn, mgrCli, cli,
                   worker, done, observed, reconciles, clock, sleepStart>>

\* Mutation of WmCancel: the cancellation is skipped when the run failed.
WmCancelOnlyOnSuccess ==
    /\ pc = "WmCancel"
    /\ IF hadError
         THEN UNCHANGED <<calls, wmCancels, wmState, stamps>>
         ELSE /\ calls' = Append(calls, Call("wmCancel", TRUE, "-"))
              /\ wmCancels' = wmCancels + 1
              /\ wmState' = IF wmState = "running" THEN "cancelled" ELSE wmState
              /\ stamps' = [stamps EXCEPT !.cancelled = clock]
    /\ Goto("Sleep")
    /\ UNCHANGED <<logLevel, logger,
                   exitCode, hadError, client, nextConn, mgrCli, cli, worker,
                   done, observed, reconciles, clock, sleepStart>>

\* wmCancel(): the watch lifetime is cancelled; the watch manager is told to
\* stop and is not waited for.
WmCancel ==
    /\ pc = "WmCancel"
    /\ calls' = Append(calls, Call("wmCancel", TRUE, "-"))
    /\ wmCancels' = wmCancels + 1
    /\ wmState' = IF wmState = "running" THEN "cancelled" ELSE wmState
    /\ stamps' = [stamps EXCEPT !.cancelled = clock]
    /\ Goto("Sleep")
    /\ UNCHANGED <<logLevel, logger,
                   exitCode, hadError, client, nextConn, mgrCli, cli, worker,
                   done, observed, reconciles, clock, sleepStart>>

\* time.Sleep(5 * time.Second) is entered.
Sleep ==
    /\ pc = "Sleep"
    /\ sleepStart' = clock
    /\ Goto("Sleeping")
    /\ UNCHANGED <<logLevel, logger,
                   exitCode, hadError, client, wmState, wmCancels, nextConn,
                   mgrCli, cli, worker, done, observed, reconciles, clock,
                   calls, stamps>>

\* Mutation of SleepWake: the sleep returns one second early.
SleepWakeEarly ==
    /\ pc = "Sleeping"
    /\ clock - sleepStart >= DrainDelay - 1
    /\ stamps' = [stamps EXCEPT !.woke = clock]
    /\ Goto("CliNew")
    /\ UNCHANGED <<logLevel, logger,
                   exitCode, hadError, client, wmState, wmCancels, nextConn,
                   mgrCli, cli, worker, done, observed, reconciles, clock,
                   sleepStart, calls>>

\* time.Sleep returns: not before the duration has passed.
SleepWake ==
    /\ pc = "Sleeping"
    /\ clock - sleepStart >= DrainDelay
    /\ stamps' = [stamps EXCEPT !.woke = clock]
    /\ Goto("CliNew")
    /\ UNCHANGED <<logLevel, logger,
                   exitCode, hadError, client, wmState, wmCancels, nextConn,
                   mgrCli, cli, worker, done, observed, reconciles, clock,
                   sleepStart, calls>>

\* ----------------------------------------------------------- cleanup phase
\* Mutation of CliNew: the cleanup reuses the manager's client
\* (mgr.GetClient()) instead of building one.
CliNewReusesManagerClient ==
    /\ pc = "CliNew"
    /\ \E ok \in BOOLEAN :
        /\ calls' = Append(calls, Call("CliNew", ok, "-"))
        /\ IF ok THEN /\ cli' = mgrCli
                      /\ Goto("GoSync")
                      /\ exitCode' = exitCode
                 ELSE /\ Exit(1)
                      /\ cli' = cli
    /\ UNCHANGED <<logLevel, logger, hadError, client, wmState, wmCancels,
                   nextConn, mgrCli, worker, done, observed, reconciles, clock,
                   sleepStart, stamps>>

\* Mutation of CliNew: the error is logged and the cleanup goes on with a
\* nil client.
CliNewLogOnly ==
    /\ pc = "CliNew"
    /\ \E ok \in BOOLEAN :
        /\ calls' = Append(calls, Call("CliNew", ok, "-"))
        /\ IF ok THEN cli' = nextConn /\ nextConn' = nextConn + 1
                 ELSE UNCHANGED <<cli, nextConn>>
    /\ Goto("GoSync")
    /\ UNCHANGED <<logLevel, logger, exitCode, hadError, client, wmState,
                   wmCancels, mgrCli, worker, done, observed, reconciles, clock,
                   sleepStart, stamps>>

\* cli, err := k8sCli.New(mgr.GetConfig(), ...): a new client instance, or
\* an error, which is fatal.
CliNew ==
    /\ pc = "CliNew"
    /\ \E ok \in BOOLEAN :
        /\ calls' = Append(calls, Call("CliNew", ok, "-"))
        /\ IF ok THEN /\ cli' = nextConn
                      /\ nextConn' = nextConn + 1
                      /\ Goto("GoSync")
                      /\ exitCode' = exitCode
                 ELSE /\ Exit(1)
                      /\ UNCHANGED <<cli, nextConn>>
    /\ UNCHANGED <<logLevel, logger,
                   hadError, client, wmState, wmCancels, mgrCli, worker, done,
                   observed, reconciles, clock, sleepStart, stamps>>

\* A go statement: make the worker's channel and start it with cli.
Go(w, here, next) ==
    /\ pc = here
    /\ done' = [done EXCEPT ![w] = "open"]
    /\ worker' = [worker EXCEPT ![w] = [st |-> "running", conn |-> cli,
                                        err |-> FALSE]]
    /\ stamps' = [stamps EXCEPT !.started[w] = clock]
    /\ Goto(next)
    /\ UNCHANGED <<logLevel, logger,
                   exitCode, hadError, client, wmState, wmCancels, nextConn,
                   mgrCli, cli, observed, reconciles, clock, sleepStart, calls>>

\* Mutation of GoTemplates: the channel is made but the go statement is
\* missing.
GoTemplatesNotStarted ==
    /\ pc = "GoTemplates"
    /\ done' = [done EXCEPT !["templates"] = "open"]
    /\ Goto("RecvSync")
    /\ UNCHANGED <<logLevel, logger, exitCode, hadError, client, wmState,
                   wmCancels, nextConn, mgrCli, cli, worker, observed,
                   reconciles, clock, sleepStart, calls, stamps>>

\* Mutation of GoTemplates: the second go statement comes after the receive
\* from syncCleaned.
GoTemplatesAfterSync ==
    /\ done["sync"] = "closed"
    /\ Go("templates", "GoTemplates", "RecvSync")

\* syncCleaned := make(chan struct{});
\* go configController.RemoveAllConfigFinalizers(cli, syncCleaned)
GoSync == Go("sync", "GoSync", "GoTemplates")

\* templatesCleaned := make(chan struct{});
\* go constrainttemplate.RemoveAllFinalizers(cli, templatesCleaned)
GoTemplates == Go("templates", "GoTemplates", "RecvSync")

\* A channel receive: blocks until the worker has fired its signal.
Recv(w, here, next, wait) ==
    /\ pc = here
    /\ wait => done[w] = "closed"
    /\ observed' = IF done[w] = "closed" THEN Append(observed, w) ELSE observed
    /\ Goto(next)
    /\ UNCHANGED <<logLevel, logger,
                   exitCode, hadError, client, wmState, wmCancels, nextConn,
                   mgrCli, cli, worker, done, reconciles, clock, sleepStart,
                   calls, stamps>>

\* Mutation of RecvSync: the receive gives up waiting (a select with a
\* timeout branch).
RecvSyncTimeout == Recv("sync", "RecvSync", "RecvTemplates", FALSE)

\* <-syncCleaned
RecvSync == Recv("sync", "RecvSync", "RecvTemplates", TRUE)

\* Mutation of RecvTemplates: the receive does not block (a select with a
\* default branch).
RecvTemplatesNoWait == Recv("templates", "RecvTemplates", "CheckHadError", FALSE)

\* <-templatesCleaned
RecvTemplates == Recv("templates", "RecvTemplates", "CheckHadError", TRUE)

\* Mutation of CheckHadError: hadError is forgotten, main just returns.
CheckHadErrorIgnored ==
    /\ pc = "CheckHadError"
    /\ Exit(0)
    /\ UNCHANGED <<logLevel, logger,
                   hadError, client, wmState, wmCancels, nextConn, mgrCli, cli,
                   worker, done, observed, reconciles, clock, sleepStart, calls,
                   stamps>>

\* if hadError { os.Exit(1) }; otherwise main returns and the process exits 0.
CheckHadError ==
    /\ pc = "CheckHadError"
    /\ IF hadError THEN Exit(1) ELSE Exit(0)
    /\ UNCHANGED <<logLevel, logger,
                   hadError, client, wmState, wmCancels, nextConn, mgrCli, cli,
                   worker, done, observed, reconciles, clock, sleepStart, calls,
                   stamps>>

\* ------------------------------------------------- the other goroutines
\* A finalizer remover goes through its resources; a removal may fail, which
\* it logs.
WorkerRemove(w) ==
    /\ Alive
    /\ worker[w].st = "running"
    /\ \E e \in BOOLEAN :
        worker' = [worker EXCEPT ![w].st = "removed", ![w].err = e]
    /\ UNCHANGED <<logLevel, logger,
                   pc, exitCode, hadError, client, wmState, wmCancels, nextConn,
                   mgrCli, cli, done, observed, reconciles, clock, sleepStart,
                   calls, visited, stamps>>

\* A finalizer remover fires its completion signal, whether or not removals
\* failed.
WorkerFire(w) ==
    /\ Alive
    /\ worker[w].st = "removed"
    /\ worker' = [worker EXCEPT ![w].st = "done"]
    /\ done' = [done EXCEPT ![w] = "closed"]
    /\ stamps' = [stamps EXCEPT !.fired[w] = clock]
    /\ UNCHANGED <<logLevel, logger,
                   pc, exitCode, hadError, client, wmState, wmCancels, nextConn,
                   mgrCli, cli, observed, reconciles, clock, sleepStart, calls,
                   visited>>

\* Inside mgr.Start the manager spawns a reconcile goroutine.
ReconcileSpawn ==
    /\ pc = "Running"
    /\ reconciles < MaxReconciles
    /\ reconciles' = reconciles + 1
    /\ UNCHANGED <<logLevel, logger,
                   pc, exitCode, hadError, client, wmState, wmCancels, nextConn,
                   mgrCli, cli, worker, done, observed, clock, sleepStart,
                   calls, visited, stamps>>

\* A reconcile goroutine finishes, after however long it takes.
ReconcileFinish ==
    /\ Alive
    /\ reconciles > 0
    /\ reconciles' = reconciles - 1
    /\ UNCHANGED <<logLevel, logger,
                   pc, exitCode, hadError, client, wmState, wmCancels, nextConn,
                   mgrCli, cli, worker, done, observed, clock, sleepStart,
                   calls, visited, stamps>>

\* The watch manager notices its cancelled context and stops.
WatchStop ==
    /\ Alive
    /\ wmState = "cancelled"
    /\ wmState' = "stopped"
    /\ UNCHANGED <<logLevel, logger,
                   pc, exitCode, hadError, client, wmCancels, nextConn, mgrCli,
                   cli, worker, done, observed, reconciles, clock, sleepStart,
                   calls, visited, stamps>>

\* Latest clock value reachable from main's current position: once the
\* sleep was entered, its full length and MaxClock seconds more, which the
\* sleep may overrun or the cleanup may take.
Horizon ==
    CASE pc = "Sleeping" -> sleepStart + DrainDelay + MaxClock
      [] StateOf(pc) = "CleaningUp" -> sleepStart + DrainDelay + MaxClock
      [] OTHER -> MaxClock

\* One second passes.
Tick ==
    /\ Alive
    /\ clock < Horizon
    /\ clock' = clock + 1
    /\ UNCHANGED <<logLevel, logger,
                   pc, exitCode, hadError, client, wmState, wmCancels, nextConn,
                   mgrCli, cli, worker, done, observed, reconciles, sleepStart,
                   calls, visited, stamps>>

\* The steps of main up to the run call.
Setup ==
    \/ GetConfig
    \/ ManagerNew
    \/ AddToScheme
    \/ NewBackend
    \/ NewClient
    \/ WatchNew
    \/ ControllerAdd
    \/ WebhookAdd
    \/ AuditAdd
    \/ UpgradeAdd

\* The whole program, started without a --log-level flag.
Next ==
    \/ ConfigureLog({NoFlag})
    \/ GetConfig
    \/ ManagerNew
    \/ AddToScheme
    \/ NewBackend
    \/ NewClient
    \/ WatchNew
    \/ ControllerAdd
    \/ WebhookAdd
    \/ AuditAdd
    \/ UpgradeAdd
    \/ MgrStart
    \/ MgrStartReturn
    \/ WmCancel
    \/ Sleep
    \/ SleepWake
    \/ CliNew
    \/ GoSync
    \/ GoTemplates
    \/ RecvSync
    \/ RecvTemplates
    \/ CheckHadError
    \/ \E w \in Workers : WorkerRemove(w)
    \/ \E w \in Workers : WorkerFire(w)
    \/ ReconcileSpawn
    \/ ReconcileFinish
    \/ WatchStop
    \/ Tick

Spec == Init /\ [][Next]_vars

\* The steps of main's own goroutine, the return of the run call excepted:
\* that one waits for a termination signal, which may never come.
MainThread ==
    \/ ConfigureLog({NoFlag})
    \/ Setup
    \/ MgrStart
    \/ WmCancel
    \/ Sleep
    \/ SleepWake
    \/ CliNew
    \/ GoSync
    \/ GoTemplates
    \/ RecvSync
    \/ RecvTemplates
    \/ CheckHadError

\* The program under a scheduler that keeps running every runnable
\* goroutine, with time passing and with cleanup workers that get through
\* their resources and fire their signal.
FairSpec ==
    /\ Init /\ [][Next]_vars
    /\ WF_vars(MainThread)
    /\ WF_vars(Tick)
    /\ \A w \in Workers : WF_vars(WorkerRemove(w)) /\ WF_vars(WorkerFire(w))

\* Startup for every command line of LogArgs, up to the run call.
LogNext ==
    \/ ConfigureLog(LogArgs)
    \/ Setup

LogSpec == Init /\ [][LogNext]_vars

\* ------------------------------------------------- what the spy has seen
FatalOps == {"GetConfig", "ManagerNew", "AddToScheme", "NewBackend",
             "ControllerAdd", "WebhookAdd", "AuditAdd", "UpgradeAdd"}

Registrars == <<"ControllerAdd", "WebhookAdd", "AuditAdd", "UpgradeAdd">>

Called(op) == \E i \in 1..Len(calls) : calls[i].op = op

Failed(op) == \E i \in 1..Len(calls) : calls[i].op = op /\ ~calls[i].ok

FatalSetupFailed == \E op \in FatalOps : Failed(op)

RunEntered == Called("Start")

RunReturned == Called("StartReturn")

RunFailed == Failed("StartReturn")

Started(w) == worker[w].st # "idle"

BothObserved == Range(observed) = Workers

Order == <<"Registering", "Running", "Cancelling", "Draining", "CleaningUp",
           "Terminated">>

\* Work of the run phase that is still in flight: a reconcile goroutine, or
\* the watch manager after its cancellation and before it has stopped.
RunWorkInFlight == reconciles > 0 \/ wmState = "cancelled"

\* ---------------------------------------------------------------- claims
\* C1: once a fatal setup step has failed the process has exited with status
\* 1, the failed call is the last call main made, the run call was never
\* entered and neither cleanup worker was started.
C1_FatalSetupExits ==
    FatalSetupFailed =>
        /\ pc = "exited"
        /\ exitCode = 1
        /\ Last(calls).op \in FatalOps /\ ~Last(calls).ok
        /\ ~RunEntered
        /\ \A w \in Workers : ~Started(w) /\ done[w] = "nil"

C1_Witness == Failed("AddToScheme") /\ pc = "exited"

\* C2 as stated: the process exits with 1 exactly when a fatal setup step
\* failed or the run call returned an error, and with 0 otherwise.
C2_Original ==
    pc = "exited" =>
        /\ exitCode \in {0, 1}
        /\ exitCode = 1 <=> (FatalSetupFailed \/ RunFailed)

\* C2 amended: the process exits with 1 exactly when a fatal setup step
\* failed, the run call returned an error or the construction of the cleanup
\* client failed, and with 0 otherwise, whatever the cleanup workers met.
C2_ExitStatus ==
    pc = "exited" =>
        /\ exitCode \in {0, 1}
        /\ exitCode = 1 <=> (FatalSetupFailed \/ RunFailed \/ Failed("CliNew"))

C2_Witness ==
    /\ pc = "exited"
    /\ exitCode = 0
    /\ \E w \in Workers : worker[w].err

\* C3: wmCancel is never invoked before the run call has returned; once the
\* run call has returned it is the very next call main makes, it has been
\* invoked exactly once by the time the drain sleep begins, and never again.
C3_CancelOnceAfterRun ==
    /\ wmCancels <= 1
    /\ wmCancels > 0 => RunReturned
    /\ (RunReturned /\ pc # "WmCancel") => wmCancels = 1
    /\ \A i \in 1..Len(calls) :
        /\ calls[i].op = "wmCancel" => i > 1 /\ calls[i - 1].op = "StartReturn"
        /\ (calls[i].op = "StartReturn" /\ i < Len(calls)) =>
               calls[i + 1].op = "wmCancel"

C3_Witness == RunFailed /\ wmCancels = 1 /\ pc = "Sleeping"

C5_ExitWaitsForBoth ==
    ((\A w \in Workers : Started(w)) /\ pc \in {"CheckHadError", "exited"}) =>
        /\ \A w \in Workers : done[w] = "closed"
        /\ BothObserved

C5_Witness ==
    /\ pc = "CheckHadError"
    /\ stamps.fired["templates"] < stamps.fired["sync"]

\* C6: a worker is started no earlier than DrainDelay seconds after the
\* cancellation that followed the return of the run call, and main is past
\* the drain sleep only when that much time has passed.
C6_DrainDelayElapsed ==
    /\ \A w \in Workers : Started(w) =>
        /\ stamps.returned >= 0
        /\ stamps.cancelled >= stamps.returned
        /\ stamps.started[w] - stamps.cancelled >= DrainDelay
    /\ StateOf(pc) = "CleaningUp" =>
        /\ stamps.woke - sleepStart >= DrainDelay
        /\ clock - stamps.cancelled >= DrainDelay

C6_Witness ==
    /\ Started("sync")
    /\ stamps.started["sync"] - stamps.cancelled = DrainDelay

\* C7: a worker has been started only if the run call was entered and has
\* returned; the states visited are a prefix of Registering, Running,
\* Cancelling, Draining, CleaningUp, Terminated, or Registering followed
\* directly by Terminated with a failure status.
C7_StateOrder ==
    /\ \A w \in Workers : Started(w) => RunEntered /\ RunReturned
    /\ \/ /\ Len(visited) <= Len(Order)
          /\ \A i \in 1..Len(visited) : visited[i] = Order[i]
       \/ /\ visited = <<"Registering", "Terminated">>
          /\ exitCode = 1

C7_Witness == visited = Order /\ exitCode = 0

\* C8: after a failed NewClient main goes on: it does not exit there, the
\* watch manager and the registrars follow, the run call is entered once
\* the four registrars succeeded, and an exit status of 1 always has another
\* cause.
C8_ClientFailureNotFatal ==
    Failed("NewClient") =>
        /\ client = "nil"
        /\ Last(calls).op = "NewClient" => pc = "WatchNew"
        /\ (Called("UpgradeAdd") /\ ~FatalSetupFailed) =>
               pc = "MgrStart" \/ RunEntered
        /\ exitCode = 1 => (FatalSetupFailed \/ RunFailed \/ Failed("CliNew"))

C8_Witness == Failed("NewClient") /\ RunEntered /\ exitCode = 0

\* C9: every registrar is invoked with an existing policy client and after
\* the watch manager was constructed, and the registrars are invoked in the
\* order controller, webhook, audit, upgrade.
C9_RegistrarsGetClient ==
    \A i \in 1..Len(calls) : \A k \in 1..Len(Registrars) :
        calls[i].op = Registrars[k] =>
            /\ client = "ok"
            /\ calls[i].arg \in {"ok", "-"}
            /\ \E j \in 1..(i - 1) : calls[j].op = "WatchNew"
            /\ k > 1 => calls[i - 1].op = Registrars[k - 1]

\* C10: no cleanup worker runs, and the process does not exit after the run
\* call, while work of the run phase is still in flight.
C10_PhasesDisjoint ==
    RunWorkInFlight =>
        /\ \A w \in Workers : worker[w].st \notin {"running", "removed"}
        /\ ~(pc = "exited" /\ RunReturned)

\* C11: once the log configuration has run, the logger installed is the one
\* the level string selects: exactly "DEBUG" the development logger,
\* exactly "WARNING" or "ERROR" the production logger (JSON, threshold
\* WARNING, stack traces at ERROR, sampling 100 per second), any other
\* string, "INFO" and the absent flag included, the standard INFO logger;
\* it is installed by the first call main makes and by no other, and the
\* configuration itself never ends the process.
C11_LogMapping ==
    IF pc = "ConfigureLog"
      THEN logger.ctor = "none" /\ calls = <<>>
      ELSE /\ logLevel = "DEBUG" =>
                /\ logger.ctor = "ZapLogger" /\ logger.development
                /\ logger.level = "DEBUG"
           /\ logLevel \in {"WARNING", "ERROR"} =>
                /\ logger.ctor = "zapr" /\ logger.encoder = "json"
                /\ logger.level = "WARNING" /\ logger.stacktrace = "ERROR"
                /\ logger.samplePerSecond = 100
           /\ logLevel \notin {"DEBUG", "WARNING", "ERROR"} =>
                /\ logger.ctor = "ZapLogger" /\ ~logger.development
                /\ logger.level = "INFO"
           /\ calls[1].op = "SetLogger"
           /\ calls[1].arg = NoFlag => logLevel = "INFO"
           /\ \A i \in 2..Len(calls) : calls[i].op # "SetLogger"
           /\ pc = "exited" => Len(calls) >= 2

C11_Witness ==
    /\ logLevel = "ERROR"
    /\ logger.ctor = "zapr"
    /\ Called("GetConfig")

\* C13 (as far as every state can show it): when main is at the second go
\* statement it can execute it whatever the first worker has done so far,
\* it has received no signal yet, and a running worker can always take its
\* next step whatever the other worker does.
C13_StartedTogether ==
    /\ pc = "GoTemplates" =>
        /\ ENABLED GoTemplates
        /\ Started("sync") /\ ~Started("templates")
        /\ observed = <<>>
    /\ \A w \in Workers :
        /\ worker[w].st = "running" /\ Alive => ENABLED WorkerRemove(w)
        /\ worker[w].st = "removed" /\ Alive => ENABLED WorkerFire(w)

C13_Witness ==
    /\ worker["sync"].st = "running"
    /\ worker["templates"].st = "running"
    /\ stamps.started["sync"] = stamps.started["templates"]

\* C14: the client the cleanup workers receive was constructed after the
\* drain delay had elapsed, is not the client the manager holds, and is the
\* same instance for both workers.
C14_FreshCleanupClient ==
    /\ cli # 0 =>
        /\ mgrCli # 0 /\ cli # mgrCli
        /\ stamps.woke >= 0
        /\ stamps.woke - stamps.cancelled >= DrainDelay
    /\ cli = 0 => \A w \in Workers : ~Started(w)
    /\ \A w \in Workers : Started(w) => worker[w].conn = cli /\ cli # 0

C14_Witness ==
    /\ Started("sync") /\ Started("templates")
    /\ worker["sync"].conn = worker["templates"].conn
    /\ worker["sync"].conn # mgrCli

\* C15: once the construction of the cleanup client has failed the process
\* has exited with status 1, at that very call, with no worker started, no
\* channel made and no signal received, whether the run call had returned
\* nil or an error.
C15_CleanupClientFailure ==
    Failed("CliNew") =>
        /\ pc = "exited"
        /\ exitCode = 1
        /\ Last(calls).op = "CliNew"
        /\ stamps.woke >= 0
        /\ \A w \in Workers : ~Started(w) /\ done[w] = "nil"
        /\ observed = <<>>

C15_Witness == Failed("CliNew") /\ RunReturned /\ ~RunFailed /\ ~hadError

\* C16: wmCancel has been invoked exactly in the states where the run call
\* has returned and main is past the cancel statement; after a registrar
\* failed the process has exited with status 1, the watch manager still
\* runs and wmCancel was never invoked.
C16_CancelIffRunReturned ==
    /\ wmCancels > 0 <=> (RunReturned /\ pc # "WmCancel")
    /\ (\E k \in 1..Len(Registrars) : Failed(Registrars[k])) =>
        /\ pc = "exited"
        /\ exitCode = 1
        /\ wmState = "running"
        /\ wmCancels = 0
        /\ ~Called("wmCancel")

C16_Witness == Failed("WebhookAdd") /\ pc = "exited" /\ wmState = "running"

\* C12: under FairSpec, once the run call has returned the process
\* eventually exits: the two receives never deadlock, in whichever order the
\* workers fire.
C12_CleanupTerminates == RunReturned ~> (pc = "exited")

C12_Witness ==
    /\ pc = "exited"
    /\ BothObserved
    /\ stamps.fired["sync"] < stamps.fired["templates"]

\* C17: main receives the sync signal first and the templates signal second;
\* as long as the sync worker has not fired, main is at or before the
\* receive from syncCleaned, however much time has passed and whatever the
\* templates worker has done: it has received nothing and has not exited.
C17_FixedReceiveOrder ==
    /\ observed \in {<<>>, <<"sync">>, <<"sync", "templates">>}
    /\ (Started("sync") /\ done["sync"] # "closed") =>
        /\ pc \in {"GoTemplates", "RecvSync"}
        /\ observed = <<>>
        /\ exitCode = -1
    /\ (pc = "RecvSync" /\ done["sync"] # "closed") => ~ENABLED RecvSync
    /\ (pc = "RecvTemplates" /\ done["templates"] # "closed") =>
        ~ENABLED RecvTemplates

C17_Witness ==
    /\ pc = "RecvSync"
    /\ done["sync"] = "open"
    /\ done["templates"] = "closed"
    /\ clock > stamps.fired["templates"]
    /\ clock = Horizon
====
